---- MODULE Spec2Model ----
(***************************************************************************)
(* A model of the x-lugoo/vm monitor (src/main.c, src/kvm.c):              *)
(*   Spec       the exit-dispatch loop of main() and its exit path         *)
(*   SpecInit   kvm__init(): the hypervisor handshake                      *)
(*   SpecLoad   kvm__load_kernel(): bzImage / flat binary loader           *)
(*   SpecReset  kvm__reset_vcpu(): CPU bring-up                            *)
(* The hypervisor, the kernel image file and the device handlers are the   *)
(* environment: what they return is chosen nondeterministically.           *)
(***************************************************************************)
EXTENDS Integers, Sequences, FiniteSets, TLC

VARIABLES
    pc,             \* control location of the monitor thread
    exit_code,      \* process exit status, meaningful when pc = "exited"
    kvm_run,        \* the shared run area (struct kvm_run)
    kvm_run_addr,   \* host address mmap() returned for the run area
    nruns,          \* number of KVM_RUN ioctls issued
    calls,          \* ioctls, collaborator and diagnostic calls made, in order
    vcpu,           \* register state held by the hypervisor for the VCPU
    self,           \* the monitor's copies: self->sregs, regs, fpu, msrs
    boot_selector,  \* self->boot_selector
    boot_ip,        \* self->boot_ip
    boot_sp,        \* self->boot_sp
    file,           \* the kernel image file: its length and header fields
    kernel_cmdline, \* the command line string (<<>> is ""), or NULL
    ram,            \* guest RAM, as the ordered list of extents written to it
    interrupt_table,\* self->interrupt_table, the staging copy of the IVT
    loaded_by,      \* which loader assigned the boot entry point
    kvm_caps,       \* the hypervisor's answer to each KVM_CHECK_EXTENSION
    argv,           \* main()'s arguments after argv[0], each a string of characters
    argi,           \* main()'s loop index i over argv
    ram_size,       \* main()'s local ram_size, in bytes
    kernel_filename,\* main()'s local kernel_filename: the argument it names, 0 for NULL
    sig,            \* the signal raised and not yet delivered, or "none"
    derefs,         \* offsets from ram_start of the bytes kvm__show_code() and
                    \* kvm__dump_mem() dereferenced
    handles         \* what the monitor has acquired and not released itself

vars == <<pc, exit_code, kvm_run, kvm_run_addr, nruns, calls, vcpu, self,
          boot_selector, boot_ip, boot_sp, file, kernel_cmdline, ram,
          interrupt_table, loaded_by, kvm_caps, argv, argi, ram_size,
          kernel_filename, sig, derefs, handles>>

loopVars == <<kvm_run, kvm_run_addr, nruns>>
cpuVars == <<vcpu, self>>
bootVars == <<boot_selector, boot_ip, boot_sp, loaded_by>>
loadVars == <<file, kernel_cmdline, ram, interrupt_table>>
argVars == <<argv, argi, ram_size, kernel_filename>>
hostVars == <<kvm_caps, argVars, sig, derefs>>

(***************************************************************************)
(* Bounds of the model.                                                    *)
(***************************************************************************)
MaxRuns == 2

MaxArgs == 2

(***************************************************************************)
(* Exit reasons (indices of kvm_exit_reasons[]).                           *)
(***************************************************************************)
KVM_EXIT_UNKNOWN == 0
KVM_EXIT_IO == 2
KVM_EXIT_DEBUG == 4
KVM_EXIT_HLT == 5
KVM_EXIT_MMIO == 6
KVM_EXIT_SHUTDOWN == 8
KVM_EXIT_FAIL_ENTRY == 9
KVM_EXIT_INTR == 10
KVM_EXIT_INTERNAL_ERROR == 17

ExitReasons ==
    { KVM_EXIT_UNKNOWN, KVM_EXIT_IO, KVM_EXIT_DEBUG, KVM_EXIT_HLT, KVM_EXIT_MMIO,
      KVM_EXIT_SHUTDOWN, KVM_EXIT_FAIL_ENTRY, KVM_EXIT_INTR, KVM_EXIT_INTERNAL_ERROR }

(***************************************************************************)
(* Fixed-width arithmetic.                                                 *)
(* TLC's integers are 32-bit signed.  Every 32- and 64-bit value of the    *)
(* model stays below 2^31 except the size_t wrap of 0 - 1, for which       *)
(* SIZE_MAX stands.                                                        *)
(***************************************************************************)
U8(x) == x % 256
U16(x) == x % 65536
SIZE_MAX == 2147483647

USHRT_MAX == 65535

(***************************************************************************)
(* Boot-protocol constants of kvm.c.                                       *)
(***************************************************************************)
BOOT_LOADER_SELECTOR == 4096
BOOT_LOADER_IP == 0
BOOT_LOADER_SP == 32768
BOOT_CMDLINE_OFFSET == 131072
BOOT_PROTOCOL_REQUIRED == 514
BZ_KERNEL_START == 1048576
BZ_DEFAULT_SETUP_SECTS == 4
CAN_USE_HEAP == 128

(***************************************************************************)
(* CPU state.  A segment register is [selector, base, limit]; the state    *)
(* the hypervisor gives a newly created VCPU is the x86 power-on state     *)
(* (the code segment base is held as its alias below 1 MiB, 0xF0000).      *)
(***************************************************************************)
SegNames == {"cs", "ss", "ds", "es", "fs", "gs"}

FreshSeg(sel, base) == [selector |-> sel, base |-> base, limit |-> 65535]

FreshVcpu ==
    [ sregs |-> [ cs |-> FreshSeg(61440, 983040),
                  ss |-> FreshSeg(0, 0), ds |-> FreshSeg(0, 0),
                  es |-> FreshSeg(0, 0), fs |-> FreshSeg(0, 0),
                  gs |-> FreshSeg(0, 0),
                  cr0 |-> 1610612752 ],
      regs  |-> [ rip |-> 65520, rsp |-> 0, rbp |-> 0, rflags |-> 2 ],
      fpu   |-> [ fcw |-> 895, mxcsr |-> 8064 ],
      msrs  |-> << >> ]

\* selector_to_base(): the selector is a uint16_t; the uint32_t product is
\* at most 0xFFFF0 and cannot wrap
selector_to_base(selector) == U16(selector) * 16

\* is_in_protected_mode(): bit 0 of cr0
is_in_protected_mode(sregs) == sregs.cr0 % 2 = 1

\* kvm__setup_sregs() with the gs assignments left out
SetupSregsValue_m(sregs, selector) ==
    [ s \in DOMAIN sregs |->
        IF s \in SegNames \ {"gs"}
        THEN [ sregs[s] EXCEPT !.selector = U16(selector),
                               !.base = selector_to_base(selector) ]
        ELSE sregs[s] ]

\* The assignments of kvm__setup_sregs() between its two ioctls.
SetupSregsValue(sregs, selector) ==
    [ s \in DOMAIN sregs |->
        IF s \in SegNames
        THEN [ sregs[s] EXCEPT !.selector = U16(selector),
                               !.base = selector_to_base(selector) ]
        ELSE sregs[s] ]

\* The compound literal of kvm__setup_regs(): every unnamed field is zero.
SetupRegsValue(ip, sp) ==
    [ rip |-> ip, rsp |-> sp, rbp |-> sp, rflags |-> 2 ]

\* The compound literal of kvm__setup_fpu().
SetupFpuValue == [ fcw |-> 895, mxcsr |-> 8064 ]

MSR_IA32_TIME_STAMP_COUNTER == 16
MSR_IA32_SYSENTER_CS == 372
MSR_IA32_SYSENTER_ESP == 373
MSR_IA32_SYSENTER_EIP == 374

\* The entries kvm__setup_msrs() writes (CONFIG_X86_64 not defined).
SetupMsrsValue ==
    << [index |-> MSR_IA32_SYSENTER_CS, data |-> 0],
       [index |-> MSR_IA32_SYSENTER_ESP, data |-> 0],
       [index |-> MSR_IA32_SYSENTER_EIP, data |-> 0],
       [index |-> MSR_IA32_TIME_STAMP_COUNTER, data |-> 0] >>

(***************************************************************************)
(* The interrupt table builder (kvm/interrupt.h, interrupt.c) and the BIOS *)
(* layout macros (kvm/bios.h).  The table of 256 descriptors is held as    *)
(* the entry setup() gave every vector and the vectors set() overwrote.    *)
(***************************************************************************)
REAL_INTR_VECTORS == 256
REAL_INTR_SIZE == REAL_INTR_VECTORS * 4
BDA_START == 1024

\* BIOS_INTR_NEXT(prev, size): the next size-aligned address at or after prev
BIOS_INTR_NEXT(prev, size) == ((prev + size - 1) \div size) * size

\* REAL_SEGMENT(addr): the real-mode segment of a 16-byte aligned address
REAL_SEGMENT(addr) == U16(addr \div 16)

\* the descriptor the table holds for vector v
TableEntry(table, v) == IF v \in DOMAIN table.over THEN table.over[v] ELSE table.dflt

\* interrupt_table__setup(): every vector gets the entry
interrupt_table__setup(table, entry) == [dflt |-> entry, over |-> << >>]

\* interrupt_table__set(): one vector gets the entry
interrupt_table__set(table, entry, num) ==
    IF num < REAL_INTR_VECTORS
    THEN [table EXCEPT !.over = (num :> entry) @@ table.over]
    ELSE table

\* little-endian encoding of v in n bytes, and its inverse
RECURSIVE LE(_, _)
LE(v, n) == IF n = 0 THEN << >> ELSE << v % 256 >> \o LE(v \div 256, n - 1)

RECURSIVE FromLE(_)
FromLE(bs) == IF bs = << >> THEN 0 ELSE Head(bs) + 256 * FromLE(Tail(bs))

\* struct real_intr_desc on the wire: offset, then segment, little-endian
IntrDescBytes(d) == LE(d.offset, 2) \o LE(d.segment, 2)

\* interrupt_table__copy(): byte k (from 0) of the table as copied out,
\* vector 0 first
interrupt_table__copy(table, k) == IntrDescBytes(TableEntry(table, k \div 4))[(k % 4) + 1]

(***************************************************************************)
(* Guest RAM.  RAM is 64 MiB of uninitialised memory (posix_memalign);     *)
(* the model keeps the ordered list of extents written to it, and the      *)
(* byte at an address is the one the last extent covering it put there.    *)
(* An extent copies from the image file ("file", from file offset off),    *)
(* from the command line string ("cmdline"), from a BIOS stub ("int10"),   *)
(* from the interrupt table as it was when copied ("ivt"), from literal    *)
(* bytes ("bytes") or zero-fills ("zero").                                 *)
(***************************************************************************)
Min(a, b) == IF a < b THEN a ELSE b

\* the value of a byte that was never written
Indeterminate == 0 - 1

\* segment_to_flat(uint16_t selector, uint16_t offset)
segment_to_flat(selector, offset) == U16(selector) * 16 + U16(offset)

\* guest_flat_to_host(), as an offset into RAM
guest_flat_to_host(offset) == offset

\* guest_real_to_host()
guest_real_to_host(selector, offset) ==
    guest_flat_to_host(segment_to_flat(selector, offset))

\* offsetof(struct boot_params, hdr) + offsetof(struct setup_header, member)
hdr_offset(member) ==
    CASE member = "setup_sects"    -> 497
      [] member = "header"         -> 514
      [] member = "version"        -> 518
      [] member = "type_of_loader" -> 528
      [] member = "loadflags"      -> 529
      [] member = "heap_end_ptr"   -> 548
      [] member = "cmd_line_ptr"   -> 552
      [] member = "cmdline_size"   -> 568

\* guest_hdr(kvm, member)
guest_hdr(member) == guest_real_to_host(BOOT_LOADER_SELECTOR, hdr_offset(member))

\* BZIMAGE_MAGIC, "HdrS"
BZIMAGE_MAGIC == <<72, 100, 114, 83>>

\* The bytes of the image file.  The header fields are where the boot
\* protocol puts them; every other byte depends on its offset.
FileByte(f, i) ==
    CASE i = hdr_offset("setup_sects") -> f.setup_sects
      [] i \in hdr_offset("header") .. hdr_offset("header") + 3 ->
            f.header[i - hdr_offset("header") + 1]
      [] i \in hdr_offset("version") .. hdr_offset("version") + 1 ->
            LE(f.version, 2)[i - hdr_offset("version") + 1]
      [] i = hdr_offset("loadflags") -> f.loadflags
      [] i \in hdr_offset("cmdline_size") .. hdr_offset("cmdline_size") + 3 ->
            LE(f.cmdline_size, 4)[i - hdr_offset("cmdline_size") + 1]
      [] OTHER -> (i * 7 + 13) % 251

\* character i (from 0) of a command line of the model: 'a', 'b', ...
CmdlineChar(i) == 97 + (i % 26)

\* byte k of the assembled int10 stub (bios-rom.S); its encoding depends on
\* macros outside the tree, so the model keeps the bytes symbolic
Int10Byte(k) == 256 + k

Extent(addr, len, kind, off, bytes) ==
    [addr |-> addr, len |-> len, kind |-> kind, off |-> off, bytes |-> bytes]

\* the k-th byte (from 0) an extent wrote
ExtentByte(e, k) ==
    CASE e.kind = "file"    -> FileByte(file, e.off + k)
      [] e.kind = "cmdline" -> kernel_cmdline.s[e.off + k + 1]
      [] e.kind = "zero"    -> 0
      [] e.kind = "bytes"   -> e.bytes[k + 1]
      [] e.kind = "int10"   -> Int10Byte(e.off + k)
      [] e.kind = "ivt"     -> interrupt_table__copy(e.bytes, e.off + k)

RECURSIVE ByteBefore(_, _, _)
ByteBefore(mem, a, i) ==
    IF i = 0 THEN Indeterminate
    ELSE IF mem[i].addr <= a /\ a < mem[i].addr + mem[i].len
         THEN ExtentByte(mem[i], a - mem[i].addr)
         ELSE ByteBefore(mem, a, i - 1)

\* the byte of guest RAM at flat address a
ByteAt(mem, a) == ByteBefore(mem, a, Len(mem))

\* memcpy of literal bytes / stores of 1, 2 and 4 bytes
WriteBytes(mem, addr, bytes) ==
    Append(mem, Extent(addr, Len(bytes), "bytes", 0, bytes))

\* read(fd, p, count) on a regular file at offset pos: what it returns
ReadCount(f, pos, count) == Min(count, IF pos < f.len THEN f.len - pos ELSE 0)

ReadChunk == 65536

\* while ((nr = read(fd, p, 65536)) > 0) p += nr;
RECURSIVE ReadRest(_, _, _, _)
ReadRest(mem, f, p, pos) ==
    LET nr == ReadCount(f, pos, ReadChunk) IN
    IF nr > 0
    THEN ReadRest(Append(mem, Extent(p, nr, "file", pos, << >>)), f, p + nr, pos + nr)
    ELSE mem

(***************************************************************************)
(* load_bzimage() (src/kvm.c:274-388), stage by stage.                     *)
(***************************************************************************)
\* the assembled intfake stub: one IRET
intfake == << 207 >>
int10_size == 64

\* if (!boot.hdr.setup_sects) ...; setup_sects = boot.hdr.setup_sects + 1;
\* setup_size = setup_sects << 9
SetupSize(f) ==
    ((IF f.setup_sects = 0 THEN BZ_DEFAULT_SETUP_SECTS ELSE f.setup_sects) + 1) * 512

\* read(fd, p, setup_size) to BOOT_LOADER_SELECTOR:BOOT_LOADER_IP
BzReadSetup(mem, f) ==
    Append(mem, Extent(guest_real_to_host(BOOT_LOADER_SELECTOR, BOOT_LOADER_IP),
                       ReadCount(f, 0, SetupSize(f)), "file", 0, << >>))

\* the rest of the file goes to BZ_KERNEL_START
BzReadKernel(mem, f) ==
    ReadRest(mem, f, guest_flat_to_host(BZ_KERNEL_START), ReadCount(f, 0, SetupSize(f)))

\* cmdline_size = strlen(kernel_cmdline) + 1, clamped to boot.hdr.cmdline_size
CmdlineSize(f, cmdline) ==
    IF Len(cmdline.s) + 1 > f.cmdline_size THEN f.cmdline_size ELSE Len(cmdline.s) + 1

\* the length memcpy() is given: (size_t)(cmdline_size - 1)
CmdlineCopyLen(f, cmdline) ==
    IF CmdlineSize(f, cmdline) = 0 THEN SIZE_MAX ELSE CmdlineSize(f, cmdline) - 1

\* memset(p, 0, boot.hdr.cmdline_size); memcpy(p, kernel_cmdline, cmdline_size - 1)
BzCopyCmdline(mem, f, cmdline) ==
    IF cmdline.null THEN mem
    ELSE mem \o << Extent(guest_flat_to_host(BOOT_CMDLINE_OFFSET),
                          f.cmdline_size, "zero", 0, << >>),
                   Extent(guest_flat_to_host(BOOT_CMDLINE_OFFSET),
                          CmdlineCopyLen(f, cmdline), "cmdline", 0, << >>) >>

\* the header patch with loadflags assigned instead of or-ed
BzPatchHeader_m(mem) ==
    LET m1 == WriteBytes(mem, guest_hdr("cmd_line_ptr"), LE(BOOT_CMDLINE_OFFSET, 4))
        m2 == WriteBytes(m1, guest_hdr("type_of_loader"), LE(255, 1))
        m3 == WriteBytes(m2, guest_hdr("heap_end_ptr"), LE(65024, 2))
    IN WriteBytes(m3, guest_hdr("loadflags"), << CAN_USE_HEAP >>)

\* "some fields in guest header have to be updated"
BzPatchHeader(mem) ==
    LET m1 == WriteBytes(mem, guest_hdr("cmd_line_ptr"), LE(BOOT_CMDLINE_OFFSET, 4))
        m2 == WriteBytes(m1, guest_hdr("type_of_loader"), LE(255, 1))
        m3 == WriteBytes(m2, guest_hdr("heap_end_ptr"), LE(65024, 2))
        lf == ByteAt(m3, guest_hdr("loadflags"))
    IN WriteBytes(m3, guest_hdr("loadflags"),
                  << IF (lf \div CAN_USE_HEAP) % 2 = 1 THEN lf ELSE lf + CAN_USE_HEAP >>)

\* the address of the intfake stub, and of the int10 stub after it
IntfakeAddr == BIOS_INTR_NEXT(BDA_START + 0, 16)
Int10Addr == BIOS_INTR_NEXT(BDA_START + Len(intfake), 16)

\* the vector table with the int10 entry stored one vector too high
BzInterruptTable_m(table) ==
    interrupt_table__set(
        interrupt_table__setup(table, [segment |-> REAL_SEGMENT(IntfakeAddr), offset |-> 0]),
        [segment |-> REAL_SEGMENT(Int10Addr), offset |-> 0],
        17)

\* the fake real-mode vector table: every vector at intfake, 0x10 at int10
BzInterruptTable(table) ==
    interrupt_table__set(
        interrupt_table__setup(table, [segment |-> REAL_SEGMENT(IntfakeAddr), offset |-> 0]),
        [segment |-> REAL_SEGMENT(Int10Addr), offset |-> 0],
        16)

\* copy the two stubs into the BDA and the table to address 0
BzInstallBios(mem, table) ==
    LET m1 == WriteBytes(mem, guest_flat_to_host(IntfakeAddr), intfake)
        m2 == Append(m1, Extent(guest_flat_to_host(Int10Addr), int10_size, "int10", 0, << >>))
    IN Append(m2, Extent(guest_flat_to_host(0), REAL_INTR_SIZE, "ivt", 0,
                         BzInterruptTable(table)))

(***************************************************************************)
(* Process termination.                                                    *)
(***************************************************************************)
\* die(), die_perror(): report and exit(1)
Die == pc' = "exited" /\ exit_code' = 1

\* an entry of the call log
Call(fn, args, ret) == [fn |-> fn, args |-> args, ret |-> ret]

(***************************************************************************)
(* The argument loop of main() (src/main.c:152-191).  An argument is the   *)
(* sequence of its characters.  ram_size and val are unsigned long: they   *)
(* are held as the signed reading of the same 64 bits, and compared as     *)
(* unsigned.                                                               *)
(***************************************************************************)
\* option_matches(): !strncmp(arg, option, strlen(option))
option_matches(arg, option) ==
    /\ Len(arg) >= Len(option)
    /\ SubSeq(arg, 1, Len(option)) = option

OptKernel == <<"-", "-", "k", "e", "r", "n", "e", "l", "=">>
OptImage == <<"-", "-", "i", "m", "a", "g", "e", "=">>
OptInitrd == <<"-", "-", "i", "n", "i", "t", "r", "d", "=">>
OptParams == <<"-", "-", "p", "a", "r", "a", "m", "s", "=">>
OptKvmDev == <<"-", "-", "k", "v", "m", "-", "d", "e", "v", "=">>
OptSingleStep == <<"-", "-", "s", "i", "n", "g", "l", "e", "-", "s", "t", "e", "p">>
OptMem == <<"-", "-", "m", "e", "m", "=">>
OptIoportDebug == <<"-", "-", "i", "o", "p", "o", "r", "t", "-", "d", "e", "b", "u", "g">>

\* the options tested before "--mem=" whose branch only records the argument
OptsBeforeMem == {OptImage, OptInitrd, OptParams, OptKvmDev, OptSingleStep}

DigitChars == <<"0", "1", "2", "3", "4", "5", "6", "7", "8", "9">>
IsDigit(c) == \E d \in 1 .. Len(DigitChars) : DigitChars[d] = c
DigitValue(c) == (CHOOSE d \in 1 .. Len(DigitChars) : DigitChars[d] = c) - 1

\* atol(): skip white space, take an optional sign, then the decimal digits
\* up to the first character that is not a digit; 0 when there are none
RECURSIVE SkipSpace(_)
SkipSpace(str) ==
    IF str # << >> /\ Head(str) = " " THEN SkipSpace(Tail(str)) ELSE str

RECURSIVE AtolDigits(_, _)
AtolDigits(str, acc) ==
    IF str # << >> /\ IsDigit(Head(str))
    THEN AtolDigits(Tail(str), acc * 10 + DigitValue(Head(str)))
    ELSE acc

atol(str) ==
    LET t == SkipSpace(str)
        signed == t # << >> /\ Head(t) \in {"-", "+"}
        digits == IF signed THEN Tail(t) ELSE t
    IN IF signed /\ Head(t) = "-"
       THEN 0 - AtolDigits(digits, 0)
       ELSE AtolDigits(digits, 0)

\* unsigned long val = atol(&argv[i][6]) << 20: a negative long keeps its
\* bits, which read as unsigned are at least 2^63
MemVal(arg) == atol(SubSeq(arg, Len(OptMem) + 1, Len(arg))) * 1048576

\* a < b on unsigned long, for the signed readings a and b
UnsignedLess(a, b) ==
    IF (a < 0) = (b < 0) THEN a < b ELSE b < 0

\* unsigned long ram_size = 64UL << 20
DefaultRamSize == 64 * 1048576

\* one iteration of the for loop over argv
ParseArg ==
    /\ pc = "parse_args"
    /\ argi <= Len(argv)
    /\ LET arg == argv[argi]
       IN IF option_matches(arg, OptKernel)
          THEN /\ kernel_filename' = argi
               /\ argi' = argi + 1
               /\ UNCHANGED <<pc, exit_code, ram_size>>
          ELSE IF \E o \in OptsBeforeMem : option_matches(arg, o)
          THEN /\ argi' = argi + 1
               /\ UNCHANGED <<pc, exit_code, ram_size, kernel_filename>>
          ELSE IF option_matches(arg, OptMem)
          THEN IF UnsignedLess(MemVal(arg), ram_size)
               THEN /\ Die
                    /\ UNCHANGED <<argi, ram_size, kernel_filename>>
               ELSE /\ ram_size' = MemVal(arg)
                    /\ argi' = argi + 1
                    /\ UNCHANGED <<pc, exit_code, kernel_filename>>
          ELSE IF option_matches(arg, OptIoportDebug)
          THEN /\ argi' = argi + 1
               /\ UNCHANGED <<pc, exit_code, ram_size, kernel_filename>>
          ELSE /\ kernel_filename' =
                    IF arg = << >> \/ arg[1] # "-" THEN argi ELSE kernel_filename
               /\ argi' = argi + 1
               /\ UNCHANGED <<pc, exit_code, ram_size>>
    /\ UNCHANGED <<argv, loopVars, calls, cpuVars, bootVars, loadVars, kvm_caps, sig,
                   derefs, handles>>

\* after the loop: usage() and exit(1) without a kernel image, else on to
\* kvm__init()
ArgsDone ==
    /\ pc = "parse_args"
    /\ argi > Len(argv)
    /\ IF kernel_filename = 0
       THEN Die
       ELSE pc' = "kvm_init" /\ UNCHANGED exit_code
    /\ UNCHANGED <<loopVars, calls, cpuVars, bootVars, loadVars, hostVars, handles>>

(***************************************************************************)
(* kvm__init() (src/kvm.c:149-224).                                        *)
(***************************************************************************)
\* host addresses mmap() may return for the run area
RunAreaAddrs == {1048576, 2097152}

\* kvm_req_ext[], in probe order
kvm_req_ext ==
    << "KVM_CAP_COALESCED_MMIO", "KVM_CAP_SET_TSS_ADDR", "KVM_CAP_PIT2",
       "KVM_CAP_USER_MEMORY", "KVM_CAP_IRQ_ROUTING", "KVM_CAP_IRQCHIP",
       "KVM_CAP_HLT", "KVM_CAP_IRQ_INJECT_STATUS", "KVM_CAP_EXT_CPUID" >>

\* kvm__supports_extension(): a negative ioctl result is false, else the result
kvm__supports_extension(caps, extension) ==
    IF caps[extension] < 0 THEN FALSE ELSE caps[extension] # 0

\* the loop of kvm__check_extensions() from index i (0-based): return (int)-i
\* at the first unsupported extension, 0 after the last
RECURSIVE CheckExtensionsFrom(_, _)
CheckExtensionsFrom(caps, i) ==
    IF i < Len(kvm_req_ext)
    THEN IF ~kvm__supports_extension(caps, kvm_req_ext[i + 1])
         THEN 0 - i
         ELSE CheckExtensionsFrom(caps, i + 1)
    ELSE 0

kvm__check_extensions(caps) == CheckExtensionsFrom(caps, 0)

\* an ioctl of kvm__init() that succeeds, or fails and is fatal
\* before is what the monitor acquired ahead of the call, got what the call
\* adds when it succeeds
InitIoctl(at, name, next, before, got) ==
    /\ pc = at
    /\ \/ /\ calls' = Append(calls, Call(name, <<>>, 0))
          /\ handles' = handles \cup before \cup got
          /\ pc' = next
          /\ UNCHANGED exit_code
       \/ /\ calls' = Append(calls, Call(name, <<>>, -1))
          /\ handles' = handles \cup before
          /\ Die
    /\ UNCHANGED <<loopVars, cpuVars, bootVars, loadVars, hostVars>>

\* self = kvm__new(); self->sys_fd = open(kvm_dev, O_RDWR)
KvmInitOpen == InitIoctl("kvm_init", "open", "api_version", {"self"}, {"sys_fd"})

\* KVM_GET_API_VERSION
KvmInitApiVersion == InitIoctl("api_version", "KVM_GET_API_VERSION", "create_vm", {}, {})

\* KVM_CREATE_VM
KvmInitCreateVm == InitIoctl("create_vm", "KVM_CREATE_VM", "check_extensions", {}, {"vm_fd"})

\* if (kvm__check_extensions(self)) die(...)
KvmInitCheckExtensions ==
    /\ pc = "check_extensions"
    /\ calls' = Append(calls, Call("kvm__check_extensions", <<>>,
                                   kvm__check_extensions(kvm_caps)))
    /\ \/ /\ kvm__check_extensions(kvm_caps) # 0
          /\ Die
       \/ /\ kvm__check_extensions(kvm_caps) = 0
          /\ pc' = "set_tss_addr"
          /\ UNCHANGED exit_code
    /\ UNCHANGED <<loopVars, cpuVars, bootVars, loadVars, hostVars, handles>>

\* KVM_SET_TSS_ADDR
KvmInitSetTssAddr == InitIoctl("set_tss_addr", "KVM_SET_TSS_ADDR", "create_pit2", {}, {})

\* KVM_CREATE_PIT2
KvmInitCreatePit2 == InitIoctl("create_pit2", "KVM_CREATE_PIT2", "alloc_ram", {}, {})

\* posix_memalign(&self->ram_start, page_size, self->ram_size)
KvmInitAllocRam == InitIoctl("alloc_ram", "posix_memalign", "set_memory_region", {}, {"ram_start"})

\* KVM_SET_USER_MEMORY_REGION
KvmInitSetMemoryRegion ==
    InitIoctl("set_memory_region", "KVM_SET_USER_MEMORY_REGION", "create_irqchip",
              {}, {"slot0"})

\* KVM_CREATE_IRQCHIP
KvmInitCreateIrqchip == InitIoctl("create_irqchip", "KVM_CREATE_IRQCHIP", "create_vcpu", {}, {})

\* KVM_CREATE_VCPU
KvmInitCreateVcpu == InitIoctl("create_vcpu", "KVM_CREATE_VCPU", "mmap_run", {}, {"vcpu_fd"})

\* KVM_GET_VCPU_MMAP_SIZE and mmap() of the run area
KvmInitMmap ==
    /\ pc = "mmap_run"
    /\ \/ /\ \E a \in RunAreaAddrs : kvm_run_addr' = a
          /\ calls' = Append(calls, Call("mmap", <<>>, 0))
          /\ handles' = handles \cup {"kvm_run"}
          /\ pc' = "init_done"
          /\ UNCHANGED exit_code
       \/ /\ calls' = Append(calls, Call("mmap", <<>>, -1))
          /\ Die
          /\ UNCHANGED <<kvm_run_addr, handles>>
    /\ UNCHANGED <<kvm_run, nruns, cpuVars, bootVars, loadVars, hostVars>>

(***************************************************************************)
(* kvm__load_kernel() (src/kvm.c:390-412).                                 *)
(***************************************************************************)
\* fd = open(kernel_filename, O_RDONLY); a failure is fatal
OpenKernel ==
    /\ pc = "open_kernel"
    /\ \/ /\ pc' = "load_bzimage"
          /\ UNCHANGED exit_code
       \/ Die
    /\ UNCHANGED <<loopVars, calls, cpuVars, bootVars, loadVars, hostVars, handles>>

\* memcmp(&boot.hdr.header, BZIMAGE_MAGIC, strlen(BZIMAGE_MAGIC)) != 0
NotBzImage(f) == f.header # BZIMAGE_MAGIC

\* boot.hdr.version < BOOT_PROTOCOL_REQUIRED
TooOldKernel(f) == f.version < BOOT_PROTOCOL_REQUIRED

\* memcpy() is asked for more bytes than the string holds: it runs off the
\* string and off guest RAM, and the process is killed by SIGSEGV
CmdlineOverrun(f, cmdline) ==
    /\ ~cmdline.null
    /\ CmdlineCopyLen(f, cmdline) > Len(cmdline.s) + 1

\* guest RAM after a successful load_bzimage()
BzImageRam(mem, f, cmdline, table) ==
    BzInstallBios(
        BzPatchHeader(BzCopyCmdline(BzReadKernel(BzReadSetup(mem, f), f), f, cmdline)),
        table)

\* guest RAM after load_flat_binary()
FlatBinaryRam(mem, f) ==
    ReadRest(mem, f, guest_real_to_host(BOOT_LOADER_SELECTOR, BOOT_LOADER_IP), 0)

\* load_bzimage(): returns false for a file that is not a bzImage or is too
\* old; dies on a short read of the setup part; otherwise loads the image,
\* patches the header, installs the BIOS and returns true
LoadBzImage ==
    /\ pc = "load_bzimage"
    /\ \/ /\ NotBzImage(file) \/ TooOldKernel(file)
          /\ pc' = "load_flat_binary"
          /\ UNCHANGED <<exit_code, bootVars, ram, interrupt_table>>
       \/ /\ ~NotBzImage(file) /\ ~TooOldKernel(file)
          /\ ReadCount(file, 0, SetupSize(file)) # SetupSize(file)
          /\ ram' = BzReadSetup(ram, file)
          /\ Die
          /\ UNCHANGED <<bootVars, interrupt_table>>
       \/ /\ ~NotBzImage(file) /\ ~TooOldKernel(file)
          /\ ReadCount(file, 0, SetupSize(file)) = SetupSize(file)
          /\ CmdlineOverrun(file, kernel_cmdline)
          /\ ram' = BzCopyCmdline(BzReadKernel(BzReadSetup(ram, file), file),
                                  file, kernel_cmdline)
          /\ pc' = "killed"
          /\ UNCHANGED <<exit_code, bootVars, interrupt_table>>
       \/ /\ ~NotBzImage(file) /\ ~TooOldKernel(file)
          /\ ReadCount(file, 0, SetupSize(file)) = SetupSize(file)
          /\ ~CmdlineOverrun(file, kernel_cmdline)
          /\ ram' = BzImageRam(ram, file, kernel_cmdline, interrupt_table)
          /\ interrupt_table' = BzInterruptTable(interrupt_table)
          /\ boot_selector' = BOOT_LOADER_SELECTOR
          /\ boot_ip' = BOOT_LOADER_IP + 512
          /\ boot_sp' = BOOT_LOADER_SP
          /\ loaded_by' = "bzimage"
          /\ pc' = "found_kernel"
          /\ UNCHANGED exit_code
       \/ /\ Die
          /\ UNCHANGED <<bootVars, ram, interrupt_table>>
    /\ UNCHANGED <<loopVars, calls, cpuVars, file, kernel_cmdline, hostVars, handles>>

\* load_flat_binary(): the whole file to BOOT_LOADER_SELECTOR:BOOT_LOADER_IP
LoadFlatBinary ==
    /\ pc = "load_flat_binary"
    /\ \/ /\ ram' = FlatBinaryRam(ram, file)
          /\ boot_selector' = BOOT_LOADER_SELECTOR
          /\ boot_ip' = BOOT_LOADER_IP
          /\ boot_sp' = BOOT_LOADER_SP
          /\ loaded_by' = "flat"
          /\ pc' = "found_kernel"
          /\ UNCHANGED exit_code
       \/ /\ Die
          /\ UNCHANGED <<bootVars, ram>>
    /\ UNCHANGED <<loopVars, calls, cpuVars, file, kernel_cmdline, interrupt_table,
                   hostVars, handles>>

\* found_kernel: return ret; main() goes on to kvm__reset_vcpu()
FoundKernel ==
    /\ pc = "found_kernel"
    /\ pc' = "setup_sregs"
    /\ UNCHANGED <<exit_code, loopVars, calls, cpuVars, bootVars, loadVars, hostVars, handles>>

(***************************************************************************)
(* kvm__reset_vcpu() (src/kvm.c:551-560): sregs, regs, fpu, msrs.          *)
(***************************************************************************)
\* kvm__setup_sregs(): get, overwrite the six segment registers, set
SetupSregs ==
    /\ pc = "setup_sregs"
    /\ \/ /\ self' = [self EXCEPT !.sregs = SetupSregsValue(vcpu.sregs, boot_selector)]
          /\ vcpu' = [vcpu EXCEPT !.sregs = SetupSregsValue(vcpu.sregs, boot_selector)]
          /\ calls' = calls \o << Call("KVM_GET_SREGS", <<>>, 0),
                                  Call("KVM_SET_SREGS", <<>>, 0) >>
          /\ pc' = "setup_regs"
          /\ UNCHANGED exit_code
       \/ /\ calls' = Append(calls, Call("KVM_GET_SREGS", <<>>, -1))
          /\ Die
          /\ UNCHANGED <<vcpu, self>>
       \/ /\ self' = [self EXCEPT !.sregs = SetupSregsValue(vcpu.sregs, boot_selector)]
          /\ calls' = calls \o << Call("KVM_GET_SREGS", <<>>, 0),
                                  Call("KVM_SET_SREGS", <<>>, -1) >>
          /\ Die
          /\ UNCHANGED vcpu
    /\ UNCHANGED <<loopVars, bootVars, loadVars, hostVars, handles>>

\* kvm__setup_regs(): build self->regs, reject rip > USHRT_MAX, set
SetupRegs ==
    /\ pc = "setup_regs"
    /\ self' = [self EXCEPT !.regs = SetupRegsValue(boot_ip, boot_sp)]
    /\ \/ /\ SetupRegsValue(boot_ip, boot_sp).rip > USHRT_MAX
          /\ Die
          /\ UNCHANGED <<vcpu, calls>>
       \/ /\ ~(SetupRegsValue(boot_ip, boot_sp).rip > USHRT_MAX)
          /\ vcpu' = [vcpu EXCEPT !.regs = SetupRegsValue(boot_ip, boot_sp)]
          /\ calls' = Append(calls, Call("KVM_SET_REGS", <<>>, 0))
          /\ pc' = "setup_fpu"
          /\ UNCHANGED exit_code
       \/ /\ ~(SetupRegsValue(boot_ip, boot_sp).rip > USHRT_MAX)
          /\ calls' = Append(calls, Call("KVM_SET_REGS", <<>>, -1))
          /\ Die
          /\ UNCHANGED vcpu
    /\ UNCHANGED <<loopVars, bootVars, loadVars, hostVars, handles>>

\* kvm__setup_fpu()
SetupFpu ==
    /\ pc = "setup_fpu"
    /\ self' = [self EXCEPT !.fpu = SetupFpuValue]
    /\ \/ /\ vcpu' = [vcpu EXCEPT !.fpu = SetupFpuValue]
          /\ calls' = Append(calls, Call("KVM_SET_FPU", <<>>, 0))
          /\ pc' = "setup_msrs"
          /\ UNCHANGED exit_code
       \/ /\ calls' = Append(calls, Call("KVM_SET_FPU", <<>>, -1))
          /\ Die
          /\ UNCHANGED vcpu
    /\ UNCHANGED <<loopVars, bootVars, loadVars, hostVars, handles>>

\* kvm__setup_msrs()
SetupMsrs ==
    /\ pc = "setup_msrs"
    /\ self' = [self EXCEPT !.msrs = SetupMsrsValue]
    /\ \/ /\ vcpu' = [vcpu EXCEPT !.msrs = SetupMsrsValue]
          /\ calls' = Append(calls, Call("KVM_SET_MSRS", <<>>, 0))
          /\ pc' = "reset_done"
          /\ UNCHANGED exit_code
       \/ /\ calls' = Append(calls, Call("KVM_SET_MSRS", <<>>, -1))
          /\ Die
          /\ UNCHANGED vcpu
    /\ UNCHANGED <<loopVars, bootVars, loadVars, hostVars, handles>>

(***************************************************************************)
(* The diagnostic dumps (src/kvm.c:646-742) and kvm__delete().  A host     *)
(* pointer is held as its offset from ram_start; an offset below zero is a *)
(* pointer that wrapped below the buffer.                                  *)
(***************************************************************************)
\* self->ram_size = 64UL * 1024UL * 1024UL
RAM_SIZE == 67108864

\* host_ptr_in_ram()
host_ptr_in_ram(p) == 0 <= p /\ p < RAM_SIZE

\* ip_to_flat(): rip in protected mode, else rip + (cs.selector << 4)
ip_to_flat(v, ip) ==
    IF is_in_protected_mode(v.sregs) THEN ip ELSE ip + v.sregs.cs.selector * 16

code_bytes == 64
code_prologue == (code_bytes * 43) \div 64

\* the loop of kvm__show_code() at its i-th byte: c = *ip after the range test
RECURSIVE ShowCodeLoop(_, _)
ShowCodeLoop(ip, i) ==
    IF i < code_bytes /\ host_ptr_in_ram(ip)
    THEN {ip} \cup ShowCodeLoop(ip + 1, i + 1)
    ELSE {}

\* the loop of kvm__dump_mem() at row n: the range test is on p + n, the
\* row read is p[n + 0] .. p[n + 7]
RECURSIVE DumpMemLoop(_, _, _)
DumpMemLoop(p, n, size) ==
    IF n < size /\ host_ptr_in_ram(p + n)
    THEN (p + n) .. (p + n + 7) \cup DumpMemLoop(p, n + 8, size)
    ELSE {}

\* kvm__dump_mem(): size &= ~7, nothing for size 0
kvm__dump_mem(addr, size) ==
    LET sz == size - (size % 8)
    IN IF sz = 0 THEN {} ELSE DumpMemLoop(guest_flat_to_host(addr), 0, sz)

\* the bytes kvm__show_code() dereferences: the code window, then 32 bytes
\* of stack at rsp
kvm__show_code(v) ==
    ShowCodeLoop(guest_flat_to_host(ip_to_flat(v, v.regs.rip) - code_prologue), 0)
        \cup kvm__dump_mem(v.regs.rsp, 32)

\* kvm__delete(): free(self->ram_start); free(self)
kvm__delete(held) == held \ {"ram_start", "self"}

(***************************************************************************)
(* The run loop of main() (src/main.c:229-271) and its exit path.          *)
(***************************************************************************)
\* What the hypervisor can leave in the run area when KVM_RUN returns.
IoPayloads ==
    { [port |-> 1016, direction |-> 1, size |-> 1, count |-> 1, data_offset |-> 4096],
      [port |-> 128,  direction |-> 0, size |-> 4, count |-> 3, data_offset |-> 4096],
      [port |-> 1016, direction |-> 0, size |-> 2, count |-> 1, data_offset |-> 8192] }

MmioPayloads ==
    { [phys_addr |-> 655360, data |-> 65, len |-> 1, is_write |-> 1],
      [phys_addr |-> 753664, data |-> 0,  len |-> 4, is_write |-> 0] }

NoIo == [port |-> 0, direction |-> 0, size |-> 0, count |-> 0, data_offset |-> 0]
NoMmio == [phys_addr |-> 0, data |-> 0, len |-> 0, is_write |-> 0]

RunExits ==
    { [exit_reason |-> KVM_EXIT_IO, io |-> p, mmio |-> NoMmio] : p \in IoPayloads }
    \cup
    { [exit_reason |-> KVM_EXIT_MMIO, io |-> NoIo, mmio |-> p] : p \in MmioPayloads }
    \cup
    { [exit_reason |-> r, io |-> NoIo, mmio |-> NoMmio] :
        r \in ExitReasons \ {KVM_EXIT_IO, KVM_EXIT_MMIO} }

\* The guest runs: it may move rip and switch to protected mode.
GuestCr0 == {FreshVcpu.sregs.cr0, FreshVcpu.sregs.cr0 + 1}

\* kvm__run(): the KVM_RUN ioctl; a failure is fatal
KvmRun ==
    /\ pc = "run"
    /\ nruns < MaxRuns
    /\ nruns' = nruns + 1
    /\ \/ /\ \E e \in RunExits : kvm_run' = e
          /\ \E c \in GuestCr0 : vcpu' = [vcpu EXCEPT !.sregs.cr0 = c]
          /\ calls' = Append(calls, Call("KVM_RUN", <<>>, 0))
          /\ pc' = "dispatch"
          /\ UNCHANGED exit_code
       \/ /\ calls' = Append(calls, Call("KVM_RUN", <<>>, -1))
          /\ Die
          /\ UNCHANGED <<kvm_run, vcpu>>
    /\ UNCHANGED <<kvm_run_addr, self, bootVars, loadVars, hostVars, handles>>

\* case KVM_EXIT_DEBUG: show registers and code, continue
DispatchDebug ==
    /\ pc = "dispatch"
    /\ kvm_run.exit_reason = KVM_EXIT_DEBUG
    /\ calls' = calls \o << Call("kvm__show_registers", <<>>, 0),
                            Call("kvm__show_code", <<>>, 0) >>
    /\ self' = [self EXCEPT !.regs = vcpu.regs, !.sregs = vcpu.sregs]
    /\ derefs' = derefs \cup kvm__show_code(vcpu)
    /\ pc' = "run"
    /\ UNCHANGED <<exit_code, loopVars, vcpu, bootVars, loadVars, kvm_caps, argVars, sig,
                   handles>>

\* the IO case with size and count passed in each other's place
DispatchIo_m ==
    /\ pc = "dispatch"
    /\ kvm_run.exit_reason = KVM_EXIT_IO
    /\ \E ret \in BOOLEAN :
        /\ calls' = Append(calls,
                Call("kvm__emulate_io",
                     << kvm_run.io.port,
                        kvm_run_addr + kvm_run.io.data_offset,
                        kvm_run.io.direction,
                        kvm_run.io.count,
                        kvm_run.io.size >>,
                     ret))
        /\ pc' = IF ret THEN "run" ELSE "exit_kvm"
    /\ UNCHANGED <<exit_code, loopVars, cpuVars, bootVars, loadVars, hostVars, handles>>

\* case KVM_EXIT_IO: kvm__emulate_io(kvm, port, data, direction, size, count)
DispatchIo ==
    /\ pc = "dispatch"
    /\ kvm_run.exit_reason = KVM_EXIT_IO
    /\ \E ret \in BOOLEAN :
        /\ calls' = Append(calls,
                Call("kvm__emulate_io",
                     << kvm_run.io.port,
                        kvm_run_addr + kvm_run.io.data_offset,
                        kvm_run.io.direction,
                        kvm_run.io.size,
                        kvm_run.io.count >>,
                     ret))
        /\ pc' = IF ret THEN "run" ELSE "exit_kvm"
    /\ UNCHANGED <<exit_code, loopVars, cpuVars, bootVars, loadVars, hostVars, handles>>

\* case KVM_EXIT_MMIO: kvm__emulate_mmio(kvm, phys_addr, data, len, is_write)
DispatchMmio ==
    /\ pc = "dispatch"
    /\ kvm_run.exit_reason = KVM_EXIT_MMIO
    /\ \E ret \in BOOLEAN :
        /\ calls' = Append(calls,
                Call("kvm__emulate_mmio",
                     << kvm_run.mmio.phys_addr,
                        kvm_run.mmio.data,
                        kvm_run.mmio.len,
                        kvm_run.mmio.is_write >>,
                     ret))
        /\ pc' = IF ret THEN "run" ELSE "exit_kvm"
    /\ UNCHANGED <<exit_code, loopVars, cpuVars, bootVars, loadVars, hostVars, handles>>

\* case KVM_EXIT_INTR: serial8250__interrupt(kvm), continue
DispatchIntr ==
    /\ pc = "dispatch"
    /\ kvm_run.exit_reason = KVM_EXIT_INTR
    /\ calls' = Append(calls, Call("serial8250__interrupt", <<>>, 0))
    /\ pc' = "run"
    /\ UNCHANGED <<exit_code, loopVars, cpuVars, bootVars, loadVars, hostVars, handles>>

\* the exit reasons the switch names
HandledExits == {KVM_EXIT_DEBUG, KVM_EXIT_IO, KVM_EXIT_MMIO, KVM_EXIT_INTR}

\* default: goto exit_kvm
DispatchDefault ==
    /\ pc = "dispatch"
    /\ kvm_run.exit_reason \notin HandledExits
    /\ pc' = "exit_kvm"
    /\ UNCHANGED <<exit_code, loopVars, calls, cpuVars, bootVars, loadVars, hostVars, handles>>

\* exit_kvm: report the exit reason, dump registers, code and page tables,
\* delete the VM and return 0 from main(); a failing register ioctl in a
\* dump is fatal
ExitKvm ==
    /\ pc = "exit_kvm"
    /\ \/ /\ calls' = calls \o << Call("kvm__show_registers", <<>>, 0),
                                  Call("kvm__show_code", <<>>, 0),
                                  Call("kvm__show_page_tables", <<>>,
                                       IF is_in_protected_mode(vcpu.sregs)
                                       THEN 1 ELSE 0),
                                  Call("kvm__delete", <<>>, 0) >>
          /\ self' = [self EXCEPT !.regs = vcpu.regs, !.sregs = vcpu.sregs]
          /\ derefs' = derefs \cup kvm__show_code(vcpu)
          /\ handles' = kvm__delete(handles)
          /\ pc' = "exited"
          /\ exit_code' = 0
       \/ /\ calls' = Append(calls, Call("kvm__show_registers", <<>>, -1))
          /\ Die
          /\ UNCHANGED <<self, derefs, handles>>
    /\ UNCHANGED <<loopVars, vcpu, bootVars, loadVars, kvm_caps, argVars, sig>>

(***************************************************************************)
(* Signals (src/main.c:64-98, 147-150).  A signal is raised at any point   *)
(* of the monitor's execution and its handler then runs to completion on   *)
(* the monitor thread, between two steps of it.                            *)
(***************************************************************************)
Signals == {"SIGINT", "SIGQUIT", "SIGALRM"}

\* the process is running
Alive == pc \notin {"exited", "killed"}

\* the terminal, the user or the interval timer raises a signal
RaiseSignal ==
    /\ Alive
    /\ sig = "none"
    /\ \E s \in Signals : sig' = s
    /\ UNCHANGED <<pc, exit_code, loopVars, calls, cpuVars, bootVars, loadVars,
                   kvm_caps, argVars, derefs, handles>>

\* handle_sigint(): shutdown(), exit(1)
handle_sigint ==
    /\ Alive
    /\ sig = "SIGINT"
    /\ sig' = "none"
    /\ calls' = calls \o << Call("tty_set_canon_flag", <<0>>, 0),
                            Call("tty_restore_origins", <<>>, 0),
                            Call("exit", <<1>>, 0) >>
    /\ Die
    /\ UNCHANGED <<loopVars, cpuVars, bootVars, loadVars, kvm_caps, argVars, derefs,
                   handles>>

\* handle_sigquit(): the three dumps, kvm__delete(), exit(1)
handle_sigquit ==
    /\ Alive
    /\ sig = "SIGQUIT"
    /\ sig' = "none"
    /\ \/ /\ calls' = calls \o << Call("kvm__show_registers", <<>>, 0),
                                  Call("kvm__show_code", <<>>, 0),
                                  Call("kvm__show_page_tables", <<>>,
                                       IF is_in_protected_mode(vcpu.sregs)
                                       THEN 1 ELSE 0),
                                  Call("kvm__delete", <<>>, 0),
                                  Call("exit", <<1>>, 0) >>
          /\ self' = [self EXCEPT !.regs = vcpu.regs, !.sregs = vcpu.sregs]
          /\ derefs' = derefs \cup kvm__show_code(vcpu)
          /\ handles' = kvm__delete(handles)
       \/ /\ calls' = Append(calls, Call("kvm__show_registers", <<>>, -1))
          /\ UNCHANGED <<self, derefs, handles>>
    /\ Die
    /\ UNCHANGED <<loopVars, vcpu, bootVars, loadVars, kvm_caps, argVars>>

\* alarm_handler(): empty
alarm_handler ==
    /\ Alive
    /\ sig = "SIGALRM"
    /\ sig' = "none"
    /\ UNCHANGED <<pc, exit_code, loopVars, calls, cpuVars, bootVars, loadVars,
                   kvm_caps, argVars, derefs, handles>>

(***************************************************************************)
(* Initial states and specifications.                                      *)
(***************************************************************************)
ZeroSeg == [selector |-> 0, base |-> 0, limit |-> 0]

\* struct kvm after calloc(): every field zero
ZeroSelf ==
    [ sregs |-> [ cs |-> ZeroSeg, ss |-> ZeroSeg, ds |-> ZeroSeg, es |-> ZeroSeg,
                  fs |-> ZeroSeg, gs |-> ZeroSeg, cr0 |-> 0 ],
      regs  |-> [ rip |-> 0, rsp |-> 0, rbp |-> 0, rflags |-> 0 ],
      fpu   |-> [ fcw |-> 0, mxcsr |-> 0 ],
      msrs  |-> << >> ]

ZeroTable == [dflt |-> [segment |-> 0, offset |-> 0], over |-> << >>]

ZeroRun == [exit_reason |-> 0, io |-> NoIo, mmio |-> NoMmio]

NullCmdline == [null |-> TRUE, s |-> << >>]
Cmdline(len) == [null |-> FALSE, s |-> [i \in 1 .. len |-> CmdlineChar(i - 1)]]

AllCaps == [e \in {kvm_req_ext[i] : i \in 1 .. Len(kvm_req_ext)} |-> 1]

\* the inputs of the model: image files and command lines
FileLens == {2, 1023, 1024, 2560, 2565, 66048, 131589}
HeaderMagics == {BZIMAGE_MAGIC, <<0, 0, 0, 0>>}
HeaderVersions == {513, 514, 522}
HeaderSetupSects == {0, 1, 128}
HeaderCmdlineSizes == {0, 1, 8, 2048}
HeaderLoadflags == {1, 129}
CmdlineLens == {0, 3, 10}

Files ==
    [ len : FileLens, header : HeaderMagics, version : HeaderVersions,
      setup_sects : HeaderSetupSects, cmdline_size : HeaderCmdlineSizes,
      loadflags : HeaderLoadflags ]

Cmdlines == {NullCmdline} \cup {Cmdline(n) : n \in CmdlineLens}

\* the two-byte flat binary and a minimal bzImage, for the run loop
FlatImage ==
    [ len |-> 2, header |-> <<0, 0, 0, 0>>, version |-> 513, setup_sects |-> 0,
      cmdline_size |-> 0, loadflags |-> 1 ]
MinimalBzImage ==
    [ len |-> 1024, header |-> BZIMAGE_MAGIC, version |-> 514, setup_sects |-> 1,
      cmdline_size |-> 2048, loadflags |-> 1 ]

\* before kvm__init(): nothing exists yet
NothingLoaded ==
    /\ boot_selector = 0 /\ boot_ip = 0 /\ boot_sp = 0
    /\ loaded_by = "none"
    /\ ram = << >>
    /\ interrupt_table = ZeroTable

NotRunning ==
    /\ kvm_run = ZeroRun
    /\ nruns = 0
    /\ calls = << >>
    /\ exit_code = 0
    /\ sig = "none"
    /\ derefs = {}

\* the argument loop is over: one argument, the kernel image
KernelArg == <<"b", "z">>

ArgsParsed ==
    /\ argv = <<KernelArg>>
    /\ argi = 2
    /\ ram_size = DefaultRamSize
    /\ kernel_filename = 1

\* what kvm__init() leaves the monitor holding
VmHandles == {"self", "sys_fd", "vm_fd", "ram_start", "slot0", "vcpu_fd", "kvm_run"}

\* kvm__init() against a hypervisor that answers the capability probes
CapAnswers ==
    [ {kvm_req_ext[i] : i \in 1 .. Len(kvm_req_ext)} -> {0, 1} ]
    \cup
    { [ e \in {kvm_req_ext[i] : i \in 1 .. Len(kvm_req_ext)} |->
            IF e = kvm_req_ext[j] THEN 0 - 1 ELSE 1 ] : j \in 1 .. Len(kvm_req_ext) }

InitKvmInit ==
    /\ pc = "kvm_init"
    /\ kvm_caps \in CapAnswers
    /\ kvm_run_addr = 0
    /\ vcpu = FreshVcpu
    /\ self = ZeroSelf
    /\ file = FlatImage
    /\ kernel_cmdline = NullCmdline
    /\ NothingLoaded
    /\ NotRunning
    /\ ArgsParsed
    /\ handles = {}

NextInit ==
    \/ KvmInitOpen
    \/ KvmInitApiVersion
    \/ KvmInitCreateVm
    \/ KvmInitCheckExtensions
    \/ KvmInitSetTssAddr
    \/ KvmInitCreatePit2
    \/ KvmInitAllocRam
    \/ KvmInitSetMemoryRegion
    \/ KvmInitCreateIrqchip
    \/ KvmInitCreateVcpu
    \/ KvmInitMmap

SpecInit == InitKvmInit /\ [][NextInit]_vars

\* kvm__load_kernel() on an initialised VM
InitLoad ==
    /\ pc = "open_kernel"
    /\ file \in Files
    /\ kernel_cmdline \in Cmdlines
    /\ kvm_caps = AllCaps
    /\ kvm_run_addr \in RunAreaAddrs
    /\ vcpu = FreshVcpu
    /\ self = ZeroSelf
    /\ NothingLoaded
    /\ NotRunning
    /\ ArgsParsed
    /\ handles = VmHandles

NextLoad ==
    \/ OpenKernel
    \/ LoadBzImage
    \/ LoadFlatBinary
    \/ FoundKernel

SpecLoad == InitLoad /\ [][NextLoad]_vars

\* kvm__reset_vcpu() on a newly created VCPU, for the entry points a loader
\* can hand it
BootSelectors == {0, BOOT_LOADER_SELECTOR, 65535}
BootIps == {BOOT_LOADER_IP, BOOT_LOADER_IP + 512, 65535, 65536}
BootSps == {0, BOOT_LOADER_SP}

InitReset ==
    /\ pc = "setup_sregs"
    /\ boot_selector \in BootSelectors
    /\ boot_ip \in BootIps
    /\ boot_sp \in BootSps
    /\ loaded_by = "flat"
    /\ file = FlatImage
    /\ kernel_cmdline = NullCmdline
    /\ ram = FlatBinaryRam(<< >>, FlatImage)
    /\ interrupt_table = ZeroTable
    /\ kvm_caps = AllCaps
    /\ kvm_run_addr \in RunAreaAddrs
    /\ vcpu = FreshVcpu
    /\ self = ZeroSelf
    /\ NotRunning
    /\ ArgsParsed
    /\ handles = VmHandles

NextReset ==
    \/ SetupSregs
    \/ SetupRegs
    \/ SetupFpu
    \/ SetupMsrs

SpecReset == InitReset /\ [][NextReset]_vars

\* the VCPU and the monitor's copies after kvm__reset_vcpu()
ResetCpu(selector, ip, sp) ==
    [ sregs |-> SetupSregsValue(FreshVcpu.sregs, selector),
      regs  |-> SetupRegsValue(ip, sp),
      fpu   |-> SetupFpuValue,
      msrs  |-> SetupMsrsValue ]

\* main() from its argument loop to the open of the hypervisor device, for
\* command lines of up to MaxArgs arguments
MemTexts ==
    { <<"0">>, <<"6", "3">>, <<"6", "4">>, <<"1", "2", "8">>, <<"-", "1">>,
      <<"-", "6", "4">>, <<"a", "b", "c">>, <<"6", "x">>, <<" ", "+", "7", "0">> }

Args ==
    { KernelArg, OptKernel \o KernelArg, OptSingleStep, OptIoportDebug, <<"-", "x">> }
    \cup { OptMem \o t : t \in MemTexts }

ArgLists == UNION { [1 .. n -> Args] : n \in 0 .. MaxArgs }

InitArgs ==
    /\ pc = "parse_args"
    /\ argv \in ArgLists
    /\ argi = 1
    /\ ram_size = DefaultRamSize
    /\ kernel_filename = 0
    /\ kvm_caps = AllCaps
    /\ kvm_run_addr = 0
    /\ vcpu = FreshVcpu
    /\ self = ZeroSelf
    /\ file = FlatImage
    /\ kernel_cmdline = NullCmdline
    /\ NothingLoaded
    /\ NotRunning
    /\ handles = {}

NextArgs ==
    \/ ParseArg
    \/ ArgsDone
    \/ KvmInitOpen

SpecArgs == InitArgs /\ [][NextArgs]_vars

\* what the guest can have made of the VCPU between the first reset and a
\* debug exit: nothing, protected mode, a reloaded data segment, a moved rip
GuestSegs == { [selector |-> 8, base |-> 0, limit |-> 1048575] }
GuestRips == { 4660 }

GuestVcpus(selector, ip, sp) ==
    LET r == ResetCpu(selector, ip, sp)
    IN { [r EXCEPT !.sregs.cr0 = c, !.sregs.ds = d, !.regs.rip = i] :
            c \in GuestCr0, d \in {r.sregs.ds} \cup GuestSegs, i \in {ip} \cup GuestRips }

\* kvm__reset_vcpu() invoked again after a KVM_EXIT_DEBUG exit was handled
InitResetAgain ==
    /\ pc = "setup_sregs"
    /\ boot_selector \in BootSelectors
    /\ boot_ip \in {i \in BootIps : i <= USHRT_MAX}
    /\ boot_sp \in BootSps
    /\ loaded_by = "flat"
    /\ file = FlatImage
    /\ kernel_cmdline = NullCmdline
    /\ ram = FlatBinaryRam(<< >>, FlatImage)
    /\ interrupt_table = ZeroTable
    /\ kvm_caps = AllCaps
    /\ kvm_run_addr \in RunAreaAddrs
    /\ vcpu \in GuestVcpus(boot_selector, boot_ip, boot_sp)
    /\ self = [ResetCpu(boot_selector, boot_ip, boot_sp)
                 EXCEPT !.regs = vcpu.regs, !.sregs = vcpu.sregs]
    /\ kvm_run = [exit_reason |-> KVM_EXIT_DEBUG, io |-> NoIo, mmio |-> NoMmio]
    /\ nruns = 1
    /\ calls = << Call("KVM_RUN", <<>>, 0), Call("kvm__show_registers", <<>>, 0),
                  Call("kvm__show_code", <<>>, 0) >>
    /\ exit_code = 0
    /\ sig = "none"
    /\ derefs = kvm__show_code(vcpu)
    /\ ArgsParsed
    /\ handles = VmHandles

SpecResetAgain == InitResetAgain /\ [][NextReset]_vars

\* the run loop, entered after a flat binary or a bzImage was loaded and the
\* VCPU reset
InitLoop ==
    /\ pc = "run"
    /\ kvm_caps = AllCaps
    /\ kvm_run_addr \in RunAreaAddrs
    /\ \/ /\ file = FlatImage
          /\ kernel_cmdline = Cmdline(3)
          /\ ram = FlatBinaryRam(<< >>, FlatImage)
          /\ interrupt_table = ZeroTable
          /\ boot_selector = BOOT_LOADER_SELECTOR
          /\ boot_ip = BOOT_LOADER_IP
          /\ boot_sp = BOOT_LOADER_SP
          /\ loaded_by = "flat"
       \/ /\ file = MinimalBzImage
          /\ kernel_cmdline = Cmdline(3)
          /\ ram = BzImageRam(<< >>, MinimalBzImage, Cmdline(3), ZeroTable)
          /\ interrupt_table = BzInterruptTable(ZeroTable)
          /\ boot_selector = BOOT_LOADER_SELECTOR
          /\ boot_ip = BOOT_LOADER_IP + 512
          /\ boot_sp = BOOT_LOADER_SP
          /\ loaded_by = "bzimage"
    /\ vcpu = ResetCpu(boot_selector, boot_ip, boot_sp)
    /\ self = ResetCpu(boot_selector, boot_ip, boot_sp)
    /\ NotRunning
    /\ ArgsParsed
    /\ handles = VmHandles

Next ==
    \/ KvmRun
    \/ DispatchDebug
    \/ DispatchIo
    \/ DispatchMmio
    \/ DispatchIntr
    \/ DispatchDefault
    \/ ExitKvm

Spec == InitLoop /\ [][Next]_vars

\* the exit path of main() for the register states a guest can leave at a
\* fatal exit: real mode below 64 KiB, protected mode anywhere, with rsp
\* inside guest RAM, at its end and beyond it
RealModeRips == {0, 42, 43, 512, 65535}
ProtectedModeRips == {0, 42, 43, 1048576, RAM_SIZE - 10, RAM_SIZE + 5}
GuestRsps ==
    {0, BOOT_LOADER_SP, RAM_SIZE - 32, RAM_SIZE - 8, RAM_SIZE - 7, RAM_SIZE - 1,
     RAM_SIZE, RAM_SIZE + 64}

DumpVcpus ==
    LET r == ResetCpu(BOOT_LOADER_SELECTOR, BOOT_LOADER_IP, BOOT_LOADER_SP)
    IN { [r EXCEPT !.regs.rip = i, !.regs.rsp = sp, !.sregs.cs.selector = cs,
                   !.sregs.cs.base = selector_to_base(cs)] :
            i \in RealModeRips, sp \in GuestRsps, cs \in {0, BOOT_LOADER_SELECTOR} }
       \cup
       { [r EXCEPT !.regs.rip = i, !.regs.rsp = sp, !.sregs.cr0 = @ + 1] :
            i \in ProtectedModeRips, sp \in GuestRsps }

InitDump ==
    /\ pc = "exit_kvm"
    /\ kvm_caps = AllCaps
    /\ kvm_run_addr \in RunAreaAddrs
    /\ file = FlatImage
    /\ kernel_cmdline = Cmdline(3)
    /\ ram = FlatBinaryRam(<< >>, FlatImage)
    /\ interrupt_table = ZeroTable
    /\ boot_selector = BOOT_LOADER_SELECTOR
    /\ boot_ip = BOOT_LOADER_IP
    /\ boot_sp = BOOT_LOADER_SP
    /\ loaded_by = "flat"
    /\ vcpu \in DumpVcpus
    /\ self = ResetCpu(boot_selector, boot_ip, boot_sp)
    /\ kvm_run = [exit_reason |-> KVM_EXIT_SHUTDOWN, io |-> NoIo, mmio |-> NoMmio]
    /\ nruns = 1
    /\ calls = << Call("KVM_RUN", <<>>, 0) >>
    /\ exit_code = 0
    /\ sig = "none"
    /\ derefs = {}
    /\ ArgsParsed
    /\ handles = VmHandles

NextDump == ExitKvm

SpecDump == InitDump /\ [][NextDump]_vars

\* the run loop with the signals the monitor has handlers for
NextSignals ==
    \/ Next
    \/ RaiseSignal
    \/ handle_sigint
    \/ handle_sigquit
    \/ alarm_handler

SpecSignals == InitLoop /\ [][NextSignals]_vars

(***************************************************************************)
(* Properties.                                                             *)
(***************************************************************************)
LastCall == calls[Len(calls)]

\* C1: whenever a run returns with exit reason HLT, the dispatcher takes no
\* fatal action and goes back to invoke run again.
C1_HltContinues ==
    [][ (pc = "dispatch" /\ kvm_run.exit_reason = KVM_EXIT_HLT) => pc' = "run" ]_vars

\* C2: on an IO exit the dispatcher makes exactly one call, kvm__emulate_io
\* with (port, run area + data_offset, direction, size, count) of the exit;
\* on an MMIO exit exactly one call, kvm__emulate_mmio with (phys_addr,
\* data, len, is_write); a true result leads back to run, a false one to
\* the fatal exit path, from where run is never invoked again.
C2_IoMmioDispatchedOnce ==
    /\ [][ (pc = "dispatch" /\ kvm_run.exit_reason = KVM_EXIT_IO) =>
            /\ Len(calls') = Len(calls) + 1
            /\ SubSeq(calls', 1, Len(calls)) = calls
            /\ calls'[Len(calls')].fn = "kvm__emulate_io"
            /\ calls'[Len(calls')].args =
                  << kvm_run.io.port, kvm_run_addr + kvm_run.io.data_offset,
                     kvm_run.io.direction, kvm_run.io.size, kvm_run.io.count >>
            /\ pc' = IF calls'[Len(calls')].ret THEN "run" ELSE "exit_kvm" ]_vars
    /\ [][ (pc = "dispatch" /\ kvm_run.exit_reason = KVM_EXIT_MMIO) =>
            /\ Len(calls') = Len(calls) + 1
            /\ SubSeq(calls', 1, Len(calls)) = calls
            /\ calls'[Len(calls')].fn = "kvm__emulate_mmio"
            /\ calls'[Len(calls')].args =
                  << kvm_run.mmio.phys_addr, kvm_run.mmio.data,
                     kvm_run.mmio.len, kvm_run.mmio.is_write >>
            /\ pc' = IF calls'[Len(calls')].ret THEN "run" ELSE "exit_kvm" ]_vars
    /\ [][ (pc \in {"exit_kvm", "exited"}) =>
            (pc' \in {"exit_kvm", "exited"} /\ nruns' = nruns) ]_vars

\* C2 witness: an MMIO handler returned true, the loop ran again, an IO
\* handler then returned false and the monitor left on the fatal path.
C2_Witness ==
    /\ pc = "exited"
    /\ nruns = 2
    /\ \E i \in 1 .. Len(calls) :
          calls[i].fn = "kvm__emulate_mmio" /\ calls[i].ret = TRUE
    /\ \E i \in 1 .. Len(calls) :
          calls[i].fn = "kvm__emulate_io" /\ calls[i].ret = FALSE

\* C3: when the loop is left on the fatal path and registers, code and
\* page tables were dumped, the process terminates with exit code 1.
C3_FatalPathExitsWithOne ==
    (pc = "exited" /\ calls # << >> /\ LastCall.fn = "kvm__delete") => exit_code = 1

\* C4: if any of the nine required capabilities is absent, kvm__init never
\* gets to TSS setup, memory-slot registration or VCPU creation.
C4_MissingCapabilityIsFatal ==
    (\E i \in 1 .. Len(kvm_req_ext) : ~kvm__supports_extension(kvm_caps, kvm_req_ext[i]))
        => pc \notin { "set_tss_addr", "create_pit2", "alloc_ram", "set_memory_region",
                       "create_irqchip", "create_vcpu", "mmap_run", "init_done" }

\* C5: for an image with the "HdrS" magic and a protocol version below
\* 0x0202 the flat-binary branch is not attempted and no boot entry point
\* is assigned; the process exits with code 1.
C5_OldBzImageIsHardFailure ==
    (file.header = <<72, 100, 114, 83>> /\ file.version < 514)
        => /\ pc \notin {"load_flat_binary", "found_kernel", "setup_sregs"}
           /\ loaded_by = "none"
           /\ (pc = "exited" => exit_code = 1)

\* the bytes of the setup header the loader patches, as file offsets
PatchedOffsets == {528, 529, 548, 549, 552, 553, 554, 555}

Max(a, b) == IF a > b THEN a ELSE b

\* the bytes extent e put at guest addresses [a, b) equal the file bytes at
\* the same addresses plus delta, file offsets in except aside
SegmentFromFile(e, a, b, delta, except) ==
    \/ e.kind = "file" /\ e.off - e.addr = delta
    \/ \A x \in a .. b - 1 :
          \/ x + delta \in except
          \/ ExtentByte(e, x - e.addr) = FileByte(file, x + delta)

\* ByteAt(mem, x) = FileByte(file, x + delta) for every x in [lo, hi) with
\* x + delta not in except, looking at the first i extents of mem: the last
\* extent that overlaps the range decides its part, the earlier ones the rest
RECURSIVE RangeFromFile(_, _, _, _, _, _)
RangeFromFile(mem, i, lo, hi, delta, except) ==
    IF lo >= hi THEN TRUE
    ELSE IF i = 0 THEN \A x \in lo .. hi - 1 : x + delta \in except
    ELSE LET a == Max(lo, mem[i].addr)
             b == Min(hi, mem[i].addr + mem[i].len)
         IN IF a >= b
            THEN RangeFromFile(mem, i - 1, lo, hi, delta, except)
            ELSE /\ SegmentFromFile(mem[i], a, b, delta, except)
                 /\ RangeFromFile(mem, i - 1, lo, a, delta, except)
                 /\ RangeFromFile(mem, i - 1, b, hi, delta, except)

\* C6: after a successful load_bzimage with setup_sects = n (4 for 0), guest
\* bytes at 0x10000 equal file bytes [0, (n+1)*512) apart from the patched
\* header fields, guest bytes at 0x100000 equal the rest of the file, and a
\* file shorter than (n+1)*512 bytes is fatal.
C6_SetupAndKernelCopied ==
    LET n == IF file.setup_sects = 0 THEN 4 ELSE file.setup_sects
        size == (n + 1) * 512
    IN /\ loaded_by = "bzimage" =>
            /\ file.len >= size
            /\ RangeFromFile(ram, Len(ram), 65536, 65536 + size, 0 - 65536, PatchedOffsets)
            /\ RangeFromFile(ram, Len(ram), 1048576, 1048576 + file.len - size,
                             size - 1048576, {})
       /\ (file.header = <<72, 100, 114, 83>> /\ file.version >= 514 /\ file.len < size
           /\ pc \notin {"open_kernel", "load_bzimage"})
            => (pc = "exited" /\ exit_code = 1)

\* the length of the last copy from the command line string into guest RAM
RECURSIVE CmdlineCopiedBefore(_, _)
CmdlineCopiedBefore(mem, i) ==
    IF i = 0 THEN 0
    ELSE IF mem[i].kind = "cmdline" THEN mem[i].len
         ELSE CmdlineCopiedBefore(mem, i - 1)

CmdlineCopied == CmdlineCopiedBefore(ram, Len(ram))

\* load_bzimage got as far as copying the command line
CmdlineStepTaken ==
    /\ ~kernel_cmdline.null
    /\ file.header = <<72, 100, 114, 83>> /\ file.version >= 514
    /\ pc \in {"found_kernel", "setup_sregs", "killed"}

\* C7: for every cmdline_size C and non-null command line s, load_bzimage
\* copies min(len(s), C-1) bytes to 0x20000, never more than C; they equal
\* the prefix of s and the rest of the region up to 0x20000 + C is zero.
C7_CmdlineTruncated ==
    CmdlineStepTaken =>
        LET C == file.cmdline_size
            n == Min(Len(kernel_cmdline.s), C - 1)
        IN /\ CmdlineCopied = n
           /\ CmdlineCopied <= C
           /\ pc # "killed"
           /\ \A k \in 0 .. n - 1 : ByteAt(ram, 131072 + k) = kernel_cmdline.s[k + 1]
           /\ \A k \in n .. C - 1 : ByteAt(ram, 131072 + k) = 0

\* a little-endian field of guest RAM
GuestLE(a, n) == FromLE([i \in 1 .. n |-> ByteAt(ram, a + i - 1)])

\* C8: after a successful bzImage load the setup header at 0x1000:0 has
\* cmd_line_ptr = 0x20000, type_of_loader = 0xFF, heap_end_ptr = 0xFE00,
\* loadflags bit 7 set and its other bits as in the file, and the entry
\* point is 0x1000:0x0200 with stack pointer 0x8000.
C8_HeaderPatchedAndEntrySet ==
    loaded_by = "bzimage" =>
        /\ GuestLE(65536 + 552, 4) = 131072
        /\ GuestLE(65536 + 528, 1) = 255
        /\ GuestLE(65536 + 548, 2) = 65024
        /\ GuestLE(65536 + 529, 1) \div 128 = 1
        /\ GuestLE(65536 + 529, 1) % 128 = file.loadflags % 128
        /\ boot_selector = 4096
        /\ boot_ip = 512
        /\ boot_sp = 32768

\* C8 witness: a bzImage whose file has the heap bit clear was loaded.
C8_Witness ==
    /\ loaded_by = "bzimage"
    /\ pc = "found_kernel"
    /\ file.loadflags = 1
    /\ ~kernel_cmdline.null

IoctlsIssued == [i \in 1 .. Len(calls) |-> calls[i].fn]

\* C10: when kvm__reset_vcpu completes, the ioctls were issued in the order
\* sregs, regs, fpu, msrs; CS, SS, DS, ES, FS, GS have selector boot_selector
\* and base selector * 16; rip = boot_ip <= 0xFFFF, rsp = rbp = boot_sp,
\* rflags = 2, cr0 bit 0 clear.  With boot_ip > 0xFFFF the reset dies before
\* the general registers are written to the VCPU.
C10_ResetState ==
    /\ pc = "reset_done" =>
        /\ IoctlsIssued = << "KVM_GET_SREGS", "KVM_SET_SREGS", "KVM_SET_REGS",
                             "KVM_SET_FPU", "KVM_SET_MSRS" >>
        /\ \A s \in {"cs", "ss", "ds", "es", "fs", "gs"} :
              /\ vcpu.sregs[s].selector = boot_selector
              /\ vcpu.sregs[s].base = boot_selector * 16
        /\ vcpu.regs.rip = boot_ip
        /\ boot_ip <= 65535
        /\ vcpu.regs.rsp = boot_sp
        /\ vcpu.regs.rbp = boot_sp
        /\ vcpu.regs.rflags = 2
        /\ vcpu.sregs.cr0 % 2 = 0
    /\ boot_ip > 65535 =>
        /\ pc \in {"setup_sregs", "setup_regs", "exited"}
        /\ (pc = "exited" => exit_code = 1)
        /\ \A i \in 1 .. Len(calls) : calls[i].fn # "KVM_SET_REGS"
        /\ vcpu.regs = FreshVcpu.regs

\* C10 witness: the reset completed for the bzImage entry point.
C10_Witness ==
    /\ pc = "reset_done"
    /\ boot_selector = 4096
    /\ boot_ip = 512
    /\ boot_sp = 32768

\* C11: kvm__reset_vcpu() invoked after a debug exit leaves the VCPU in
\* exactly the state the first reset produced before boot, whatever the
\* guest did to the control registers, the segments and rip in between.
C11_ResetIdempotent ==
    pc = "reset_done" => vcpu = ResetCpu(boot_selector, boot_ip, boot_sp)

\* the "--mem=" arguments of the command line
MemArgs == { i \in 1 .. Len(argv) : option_matches(argv[i], OptMem) }

\* the number N of the argument "--mem=N", as atol() reads it
MemNumber(i) == atol(SubSeq(argv[i], Len(OptMem) + 1, Len(argv[i])))

\* C12: with a "--mem=N" argument whose N is below 64 (zero, negative and
\* non-numeric included) the monitor never gets to kvm__init(): the
\* hypervisor device is not opened, and when the process has exited its
\* exit code is 1.
C12_SmallMemIsFatal ==
    (\E i \in MemArgs : MemNumber(i) < 64) =>
        /\ pc \notin {"kvm_init", "api_version"}
        /\ "sys_fd" \notin handles
        /\ \A c \in 1 .. Len(calls) : calls[c].fn # "open"
        /\ pc = "exited" => exit_code = 1

\* a step in which a signal handler ran
HandlerRan == sig # "none" /\ sig' = "none"

\* C13: a signal handler, at whatever point it runs, makes no call (no
\* terminal restore, no dump, no ioctl), frees nothing the monitor holds and
\* does not end the process: the monitor thread is where it was.
C13_HandlersTouchOnlyFlags ==
    [][ HandlerRan =>
            /\ calls' = calls
            /\ handles' = handles
            /\ derefs' = derefs
            /\ self' = self
            /\ pc' = pc
            /\ exit_code' = exit_code ]_vars

\* what the hypervisor holds of the VM: its handles, the run area mapping
\* and the memory slot that points into guest RAM
VmSide == {"sys_fd", "vm_fd", "vcpu_fd", "kvm_run", "slot0"}

\* C14: on every teardown path, once the guest RAM buffer has been freed the
\* VCPU, VM and sys handles are closed and the run area unmapped, so that
\* no memory slot of a live VM points into freed RAM.
C14_VmClosedBeforeRamFreed ==
    "ram_start" \notin handles => handles \cap VmSide = {}

\* C15: every byte kvm__show_code() and kvm__dump_mem() dereference lies in
\* guest RAM, at an offset in [0, ram_size) from ram_start, whatever rip,
\* cs and rsp the guest left.
C15_DumpsStayInRam ==
    \A p \in derefs : host_ptr_in_ram(p)

====
